---- MODULE Spec2Model ----
(***************************************************************************)
(* A model of the solark_cloud integration: the cloud client (api.py) and  *)
(* the coordinator's poll cycle (__init__.py).                             *)
(*                                                                         *)
(* Conventions.                                                            *)
(*  - A Python Optional is a sequence of length at most one: None is <<>>  *)
(*    and a value v is <<v>>.                                              *)
(*  - A JSON scalar of a payload is a pair <<tag, n>>: a number, null, or  *)
(*    a non-numeric string.  Watts are modelled as integers.               *)
(*  - A string built by an f-string is the sequence of its pieces; the     *)
(*    empty string is the empty sequence.                                  *)
(*  - A daily energy e (kWh) is held as the integer 60000 * e, so that     *)
(*    (power / 1000) * (update_seconds / 60) is power * update_seconds.    *)
(*  - A call that may raise returns [ok, val, exc].                        *)
(***************************************************************************)
EXTENDS Integers, Sequences, FiniteSets, TLC

VARIABLES
    \* configuration read by async_setup_entry: [base_url, auth_mode, update_seconds, invert_grid]
    cfg,
    \* SolarkCloudClient fields
    base_url, token, token_expiry, last_error,
    \* DataUpdateCoordinator.data: None, or the last PollResult
    coordinator_data,
    \* wall clock, in seconds since the local midnight of the day the run starts in
    now,
    \* per task, the poll cycle it runs: position and locals
    task,
    \* per task, what its current (or last) cycle did
    cyc,
    \* what the run did so far
    cycles, ticks, last_ok_base, energy_latest, energy_seen,
    \* one call of a pure function: its name, arguments and result
    fn_name, fn_args, fn_out

client_vars == <<base_url, token, token_expiry, last_error>>
run_vars == <<cycles, ticks, last_ok_base, energy_latest, energy_seen>>
fn_vars == <<fn_name, fn_args, fn_out>>
vars == <<cfg, client_vars, coordinator_data, now, task, cyc, run_vars, fn_vars>>

---------------------------------------------------------------------------
(* Values *)

None == <<>>
Some(x) == <<x>>

JNull == <<"null", 0>>
JStr == <<"str", 0>>
JNum(n) == <<"num", n>>

EmptyDict == [k \in {} |-> JNull]

Exc(type, msg) == [type |-> type, msg |-> msg]
NoExc == Exc("", <<>>)
Ok(v) == [ok |-> TRUE, val |-> v, exc |-> NoExc]
Raise(e) == [ok |-> FALSE, val |-> None, exc |-> e]

Abs(x) == IF x >= 0 THEN x ELSE -x
Max(a, b) == IF a >= b THEN a ELSE b

---------------------------------------------------------------------------
(* Field normalizer *)

PV_KEYS == <<"pvPower", "pv", "solarPower", "pv_input">>
LOAD_KEYS == <<"loadOrEpsPower", "loadPower", "load", "housePower">>
GRID_KEYS == <<"gridOrMeterPower", "gridPower", "grid", "gridNet">>
BATT_KEYS == <<"battPower", "batteryPower", "battery", "batt">>
SOC_KEYS == <<"soc", "batterySoc", "batterySoC", "battSoc">>

\* A variant of FirstPresent that tests "k in d" only and so takes a null value too.
FirstPresentOrNull(d, keys) ==
    LET hits == {i \in 1..Len(keys) : keys[i] \in DOMAIN d}
    IN  IF hits = {} THEN 0 ELSE CHOOSE i \in hits : \A j \in hits : i <= j

\* The index in keys of the first key that d holds with a non-null value, 0 if none.
FirstPresent(d, keys) ==
    LET hits == {i \in 1..Len(keys) : keys[i] \in DOMAIN d /\ d[keys[i]] # JNull}
    IN  IF hits = {} THEN 0 ELSE CHOOSE i \in hits : \A j \in hits : i <= j

\* A payload object is [top, nested]: its scalar fields, and its "flow" field when
\* that is itself an object (None when it is absent or not an object).
_pick(d, keys, default) ==
    IF FirstPresent(d.top, keys) # 0
    THEN d.top[keys[FirstPresent(d.top, keys)]]
    ELSE IF d.nested # None /\ FirstPresent(d.nested[1], keys) # 0
         THEN d.nested[1][keys[FirstPresent(d.nested[1], keys)]]
         ELSE default

_to_float(x) == IF x[1] = "num" THEN Some(x[2]) ELSE None

---------------------------------------------------------------------------
(* Metric derivation *)

UnboundLocalError ==
    Exc("UnboundLocalError", <<"local variable 'grid_import' referenced before assignment">>)

\* A variant of SplitMetrics that takes the non-inverted branch in both modes.
SplitMetricsIgnoringInvert(g, invert) ==
    IF g >= 0
    THEN [grid_import |-> g, grid_export |-> 0]
    ELSE [grid_import |-> 0, grid_export |-> Abs(g)]

\* The split of the signed grid value into import and export.
SplitMetrics(g, invert) ==
    IF ~invert
    THEN IF g >= 0
         THEN [grid_import |-> g, grid_export |-> 0]
         ELSE [grid_import |-> 0, grid_export |-> Abs(g)]
    ELSE IF g >= 0
         THEN [grid_import |-> 0, grid_export |-> g]
         ELSE [grid_import |-> Abs(g), grid_export |-> 0]

parse_metrics_from_flow(fl, invert) ==
    LET pv == _to_float(_pick(fl, PV_KEYS, JNull))
        load == _to_float(_pick(fl, LOAD_KEYS, JNull))
        grid_signed == _to_float(_pick(fl, GRID_KEYS, JNull))
        batt == _to_float(_pick(fl, BATT_KEYS, JNull))
        soc == _to_float(_pick(fl, SOC_KEYS, JNull))
    IN  IF grid_signed = None
        THEN Raise(UnboundLocalError)
        ELSE Ok([pv_power |-> pv,
                 load_power |-> load,
                 grid_import_power |-> Some(SplitMetrics(grid_signed[1], invert).grid_import),
                 grid_export_power |-> Some(SplitMetrics(grid_signed[1], invert).grid_export),
                 battery_power |-> batt,
                 battery_soc |-> soc])

parse_energy_today_from_generation_use(genuse) ==
    IF "pv" \in DOMAIN genuse.top THEN _to_float(genuse.top["pv"]) ELSE None

---------------------------------------------------------------------------
(* Daily energy accumulator *)

NoneTypeError ==
    Exc("TypeError", <<"unsupported operand type(s) for /: 'NoneType' and 'int'">>)

ZeroEnergy ==
    [grid_import_energy_today |-> 0, grid_export_energy_today |-> 0, load_energy_today |-> 0]

Hour(t) == (t \div 3600) % 24
Minute(t) == (t \div 60) % 60

SplitDaily(g, invert) ==
    IF ~invert
    THEN IF g >= 0
         THEN [grid_import |-> g, grid_export |-> 0]
         ELSE [grid_import |-> 0, grid_export |-> Abs(g)]
    ELSE IF g >= 0
         THEN [grid_import |-> 0, grid_export |-> g]
         ELSE [grid_import |-> Abs(g), grid_export |-> 0]

KeyError(k) == Exc("KeyError", <<"'", k, "'">>)

\* A variant of NoPriorMetrics that tests "metrics is None", which no mapping satisfies.
NoPriorMetricsIsNone(metrics) == FALSE

\* metrics == {}
NoPriorMetrics(metrics) == DOMAIN metrics = {}

\* A variant of InMidnightWindow that looks at the minute only.
InMidnightWindowOfAnyHour(t) == Minute(t) <= 2

\* A variant of InMidnightWindow that resets in the first minute only.
InMidnightWindowFirstMinute(t) == Hour(t) = 0 /\ Minute(t) = 0

\* hour == 0 and minute <= 2
InMidnightWindow(t) == Hour(t) = 0 /\ Minute(t) <= 2

\* metrics is the prior metric set (a dict), secs is self._update_seconds and t the
\* wall clock read by datetime.today().  The sums are evaluated in the order of the
\* code: the prior total is read (KeyError) before the power is divided (TypeError).
parse_daily_energy_from_flow(fl, metrics, invert, secs, t) ==
    LET load == _to_float(_pick(fl, LOAD_KEYS, JNull))
        grid_signed == _to_float(_pick(fl, GRID_KEYS, JNull))
    IN  IF NoPriorMetrics(metrics)
        THEN Ok(ZeroEnergy)
        ELSE IF "grid_import_energy_today" \notin DOMAIN metrics
        THEN Raise(KeyError("grid_import_energy_today"))
        ELSE IF grid_signed = None
        THEN Raise(NoneTypeError)
        ELSE IF "grid_export_energy_today" \notin DOMAIN metrics
        THEN Raise(KeyError("grid_export_energy_today"))
        ELSE IF "load_energy_today" \notin DOMAIN metrics
        THEN Raise(KeyError("load_energy_today"))
        ELSE IF load = None
        THEN Raise(NoneTypeError)
        ELSE LET split == SplitDaily(grid_signed[1], invert)
                 gi == split.grid_import * secs
                 ge == split.grid_export * secs
                 ld == load[1] * secs
             IN  IF InMidnightWindow(t)
                 THEN Ok([grid_import_energy_today |-> gi,
                          grid_export_energy_today |-> ge,
                          load_energy_today |-> ld])
                 ELSE Ok([grid_import_energy_today |-> metrics.grid_import_energy_today + gi,
                          grid_export_energy_today |-> metrics.grid_export_energy_today + ge,
                          load_energy_today |-> metrics.load_energy_today + ld])

---------------------------------------------------------------------------
(* HTTP responses: what the provider may answer *)

TimeoutError == Exc("TimeoutError", <<>>)
JSONDecodeError == Exc("JSONDecodeError", <<"Expecting value: line 1 column 1 (char 0)">>)
RuntimeError(msg) == Exc("RuntimeError", msg)

\* A response is a timeout of the 20 s bound, or a status with a body.
Timeout == [k |-> "timeout", status |-> 0, body |-> None]
Http(status, body) == [k |-> "http", status |-> status, body |-> Some(body)]

\* A login body: whether it parses as a JSON object, and of that object the token
\* found at data.access_token, access_token and token and the expires_in found at
\* data.expires_in and expires_in (None: absent).
LoginBody(json, dat, acc, tok, dexp, exp) ==
    [json |-> json, data_access_token |-> dat, access_token |-> acc, token |-> tok,
     data_expires_in |-> dexp, expires_in |-> exp]

\* The token the host at base b issues in a slot of its response.
Issued(b, slot) == [iss |-> b, slot |-> slot]

LoginBodies ==
    { LoginBody("object", FALSE, TRUE, FALSE, None, None),
      LoginBody("object", TRUE, FALSE, TRUE, Some(660), Some(7200)),
      LoginBody("object", FALSE, FALSE, FALSE, None, Some(3600)),
      LoginBody("invalid", FALSE, FALSE, FALSE, None, None) }

\* txt[:180] of a non-200 answer
ErrorText == "<html>error</html>"

LoginResponses ==
    {Timeout, Http(403, LoginBody("invalid", FALSE, FALSE, FALSE, None, None))}
        \cup {Http(200, b) : b \in LoginBodies}

HasToken(r) ==
    /\ r.k = "http" /\ r.status = 200 /\ r.body[1].json = "object"
    /\ (r.body[1].data_access_token \/ r.body[1].access_token \/ r.body[1].token)

\* A GET body: "envelope" {"data": doc}, "envelope_null" {"data": null}, "bare" (an
\* object without a "data" field), "null" or "invalid" (not JSON).
GetBody(kind, doc) == [kind |-> kind, doc |-> doc]

Doc(top, nested) == [top |-> top, nested |-> nested]
EmptyDoc == Doc(EmptyDict, None)

---------------------------------------------------------------------------
(* Auth manager *)

API_HOST == "https://api.solarkcloud.com"
MYSOLARK == "https://www.mysolark.com"
CUSTOM_HOST == "https://solark.example.org"

\* urlparse(base).netloc contains "api.solarkcloud.com"
NetlocHasApiHost(b) == b = API_HOST

Alt(b) == IF NetlocHasApiHost(b) THEN MYSOLARK ELSE API_HOST

Bases(b) == IF Alt(b) # b THEN <<b, Alt(b)>> ELSE <<b>>

Modes(mode) ==
    IF mode = "auto" THEN <<"strict", "legacy">>
    ELSE IF mode = "strict" THEN <<"strict">>
    ELSE <<"legacy">>

\* A variant of LoginPairs with the loops swapped: every base for strict, then for legacy.
LoginPairsModeMajor(b, mode) ==
    LET bs == Bases(b)
        ms == Modes(mode)
    IN  [i \in 1..(Len(bs) * Len(ms)) |->
            [base |-> bs[((i - 1) % Len(bs)) + 1], mode |-> ms[((i - 1) \div Len(bs)) + 1]]]

\* A variant of LoginPairs that tries every pair a second time after it failed.
LoginPairsRetrying(b, mode) ==
    LET bs == Bases(b)
        ms == Modes(mode)
    IN  [i \in 1..(2 * Len(bs) * Len(ms)) |->
            [base |-> bs[(((i - 1) \div 2) \div Len(ms)) + 1],
             mode |-> ms[(((i - 1) \div 2) % Len(ms)) + 1]]]

\* The order in which the nested loops of _login visit (base, mode).
LoginPairs(b, mode) ==
    LET bs == Bases(b)
        ms == Modes(mode)
    IN  [i \in 1..(Len(bs) * Len(ms)) |->
            [base |-> bs[((i - 1) \div Len(ms)) + 1], mode |-> ms[((i - 1) % Len(ms)) + 1]]]

\* A variant of NeedsLogin that never looks at the expiry.
NeedsLoginIgnoringExpiry(tok, exp, t) == tok = None

\* _ensure_token goes on to _login
NeedsLogin(tok, exp, t) == ~(tok # None /\ exp # None /\ t < exp[1])

ExtractToken(b, body) ==
    IF body.json # "object" THEN None
    ELSE IF body.data_access_token THEN Some(Issued(b, "data.access_token"))
    ELSE IF body.access_token THEN Some(Issued(b, "access_token"))
    ELSE IF body.token THEN Some(Issued(b, "token"))
    ELSE None

\* A variant of ExtractExpiresIn that keeps the default and never reads the body.
ExtractExpiresInDefaultOnly(body) == 3600

ExtractExpiresIn(body) ==
    IF body.json # "object" THEN 3600
    ELSE IF body.data_expires_in # None THEN body.data_expires_in[1]
    ELSE IF body.expires_in # None THEN body.expires_in[1]
    ELSE 3600

StatusText(status) == IF status = 403 THEN "403" ELSE IF status = 500 THEN "500" ELSE "200"

\* A variant of CacheWrite that stores the token and leaves the expiry unset.
CacheWriteTokenOnly(tok, expires_in, t) == [token |-> tok, token_expiry |-> None]

\* The two assignments that end _try_login_once, with no await between them.
CacheWrite(tok, expires_in, t) ==
    [token |-> tok, token_expiry |-> Some(t + Max(60, expires_in - 600))]

\* _try_login_once: the call's outcome <<ok, err>> (or the exception it raises) and,
\* when it writes them, the new token and expiry.
_try_login_once(b, mode, resp, t) ==
    IF resp.k = "timeout"
    THEN [out |-> Raise(TimeoutError), write |-> None]
    ELSE IF resp.status # 200
    THEN [out |-> Ok([ok |-> FALSE, err |-> <<StatusText(resp.status), " ", ErrorText>>]),
          write |-> None]
    ELSE IF resp.body[1].json = "invalid"
    THEN [out |-> Raise(JSONDecodeError), write |-> None]
    ELSE IF ExtractToken(b, resp.body[1]) = None
    THEN [out |-> Ok([ok |-> FALSE, err |-> <<"no access_token in response">>]),
          write |-> None]
    ELSE [out |-> Ok([ok |-> TRUE, err |-> <<>>]),
          write |-> Some(CacheWrite(ExtractToken(b, resp.body[1]),
                                    ExtractExpiresIn(resp.body[1]), t))]

LoginFailedMsg(b, mode, err) == <<"login failed at ", b, " (", mode, "): ">> \o err

---------------------------------------------------------------------------
(* Cloud client *)

FLOW_PATH == "/api/v1/plant/energy/{plant_id}/flow"
GENUSE_PATH == "/api/v1/plant/energy/{plant_id}/generation/use"
Path(ep) == IF ep = "flow" THEN FLOW_PATH ELSE GENUSE_PATH

GetFailedMsg(path, status) == <<"GET ", path, " failed: ", StatusText(status), " ", ErrorText>>

\* get_flow, get_generation_use: the last line of each
Unwrap(body) == IF body.kind = "envelope" THEN body.doc ELSE EmptyDoc

DocExport == Doc(("loadPower" :> JNum(600)) @@ ("gridOrMeterPower" :> JNum(-300)), None)
DocGenUse == Doc(("pv" :> JNum(12)) @@ ("gridBuy" :> JNum(3)), None)

FlowBodies ==
    { GetBody("envelope", DocExport), GetBody("envelope_null", EmptyDoc) }

GenUseBodies == { GetBody("envelope", DocGenUse) }

GetResponses(ep) ==
    {Timeout, Http(500, GetBody("invalid", EmptyDoc))}
        \cup {Http(200, b) : b \in IF ep = "flow" THEN FlowBodies ELSE GenUseBodies}

---------------------------------------------------------------------------
(* The poll cycle *)

Tasks == {1, 2}
\* The Scheduler runs one cycle at a time: the cycles of Spec are those of one task.
SchedulerTasks == {1}

MaxCycles == 4
MaxTicks == 2

NoRequest ==
    [kind |-> "", base |-> "", mode |-> "", token |-> None, path |-> "", sent_at |-> 0]
LoginRequest(p, t) ==
    [kind |-> "login", base |-> p.base, mode |-> p.mode, token |-> None,
     path |-> "/oauth/token", sent_at |-> t]
GetRequest(b, tok, ep, t) ==
    [kind |-> "get", base |-> b, mode |-> "", token |-> tok, path |-> Path(ep), sent_at |-> t]

IdleTask ==
    [pc |-> "idle", endpoint |-> "", pairs |-> <<>>, pair_i |-> 0, request |-> NoRequest,
     flow |-> EmptyDoc, flow_metrics |-> None]

\* What a cycle did: how it ended, with which PollResult and on which exception,
\* whether one of its requests failed, how many requests it sent, the endpoints it
\* sent a GET to, and of its last _login the pairs it had to try, the attempts it
\* made (the pair, and "rejected", "ok" or "raised"), the kind of the last answer,
\* how it ended and the exception it raised.
NoCycle ==
    [outcome |-> "none", result |-> None, exc |-> NoExc, request_failed |-> FALSE,
     requests |-> 0, gets |-> <<>>,
     login_pairs |-> <<>>, attempts |-> <<>>, last_answer |-> "", login_state |-> "none",
     login_exc |-> NoExc]

\* The task as _get leaves it at its first await: after _ensure_token it has either
\* entered _login and sent the first login request, or sent the GET.
CallGet(tk, ep, burl, tok, exp, mode, t) ==
    IF NeedsLogin(tok, exp, t)
    THEN [tk EXCEPT !.pc = "login", !.endpoint = ep, !.pairs = LoginPairs(burl, mode),
                    !.pair_i = 1, !.request = LoginRequest(LoginPairs(burl, mode)[1], t)]
    ELSE [tk EXCEPT !.pc = "get", !.endpoint = ep, !.request = GetRequest(burl, tok, ep, t)]

\* What entering _login (or not) does to the observation of the cycle: the first
\* login request, or the GET to endpoint ep, is sent.
CallGetObs(c, ep, burl, tok, exp, mode, t) ==
    IF NeedsLogin(tok, exp, t)
    THEN [c EXCEPT !.login_pairs = LoginPairs(burl, mode), !.attempts = <<>>,
                   !.last_answer = "", !.login_state = "running", !.login_exc = NoExc,
                   !.requests = @ + 1]
    ELSE [c EXCEPT !.requests = @ + 1, !.gets = Append(@, ep)]

\* A variant of handle_exception that reports client.last_error instead of str(err).
handle_exception_with_client_error(exc, client_error) ==
    IF exc.type = "CancelledError" THEN None
    ELSE Some([metrics |-> EmptyDict, last_error |-> client_error])

\* The except clause of async_update_data: the PollResult returned for an exception,
\* None for one it does not catch (CancelledError is no Exception).
handle_exception(exc, client_error) ==
    IF exc.type = "CancelledError" THEN None
    ELSE Some([metrics |-> EmptyDict, last_error |-> Some(exc.msg)])

\* The cycle of task t ends with exception exc at its outermost boundary; le is
\* client.last_error at that moment.
EndWithException(t, exc, le, c) ==
    LET res == handle_exception(exc, le)
    IN  /\ task' = [task EXCEPT ![t] = IdleTask]
        /\ cyc' = [cyc EXCEPT ![t] =
                     [c EXCEPT !.outcome = IF res = None THEN "propagated" ELSE "returned",
                               !.result = res,
                               !.exc = exc]]
        /\ coordinator_data' = IF res = None THEN coordinator_data ELSE res
        /\ UNCHANGED <<energy_latest, energy_seen>>

StartCycle(t) ==
    /\ task[t].pc = "idle"
    /\ cycles < MaxCycles
    /\ cycles' = cycles + 1
    /\ task' = [task EXCEPT ![t] =
                  CallGet(IdleTask, "flow", base_url, token, token_expiry, cfg.auth_mode, now)]
    /\ cyc' = [cyc EXCEPT ![t] =
                 CallGetObs([NoCycle EXCEPT !.outcome = "running"], "flow", base_url, token,
                            token_expiry, cfg.auth_mode, now)]
    /\ last_error' = IF NeedsLogin(token, token_expiry, now) THEN None ELSE last_error
    /\ UNCHANGED <<cfg, base_url, token, token_expiry, coordinator_data, now, ticks,
                   last_ok_base, energy_latest, energy_seen, fn_vars>>

\* A variant of AdoptBase that leaves the active base as it is.
KeepBase(b, current) == current

\* _login, on a successful attempt at base b: self._base_url = b
AdoptBase(b, current) == b

\* The answer to the login request in flight, as _try_login_once sees it.
LoginAnswer(t, resp) ==
    _try_login_once(task[t].pairs[task[t].pair_i].base, task[t].pairs[task[t].pair_i].mode,
                    resp, now)

Attempt(t, outcome) ==
    [base |-> task[t].request.base, mode |-> task[t].request.mode, outcome |-> outcome]

AnswerKind(resp) ==
    IF resp.k = "timeout" THEN "timeout"
    ELSE IF resp.status # 200 THEN "non_200"
    ELSE IF resp.body[1].json = "invalid" THEN "invalid"
    ELSE IF HasToken(resp) THEN "token" ELSE "no_token"

\* A login request is answered by a non-200 status or by a 200 without a token.
LoginRejected(t) ==
    /\ task[t].pc = "login"
    /\ \E resp \in LoginResponses :
        LET r == LoginAnswer(t, resp)
            p == task[t].pairs[task[t].pair_i]
            msg == LoginFailedMsg(p.base, p.mode, r.out.val.err)
            c == [cyc[t] EXCEPT !.attempts = Append(@, Attempt(t, "rejected")),
                                !.last_answer = AnswerKind(resp),
                                !.request_failed = TRUE]
        IN  /\ r.out.ok /\ ~r.out.val.ok
            /\ last_error' = Some(msg)
            /\ IF task[t].pair_i < Len(task[t].pairs)
               THEN /\ task' = [task EXCEPT ![t] =
                                  [@ EXCEPT !.pair_i = @ + 1,
                                            !.request = LoginRequest(task[t].pairs[task[t].pair_i + 1], now)]]
                    /\ cyc' = [cyc EXCEPT ![t] = [c EXCEPT !.requests = @ + 1]]
                    /\ UNCHANGED <<coordinator_data, energy_latest, energy_seen>>
               ELSE EndWithException(t, RuntimeError(msg), Some(msg),
                        [c EXCEPT !.login_state = "raised", !.login_exc = RuntimeError(msg)])
    /\ UNCHANGED <<cfg, base_url, token, token_expiry, now, cycles, ticks, last_ok_base, fn_vars>>

\* A login request times out, or its 200 body is not JSON: the exception leaves _login.
LoginAborted(t) ==
    /\ task[t].pc = "login"
    /\ \E resp \in LoginResponses :
        LET r == LoginAnswer(t, resp)
        IN  /\ ~r.out.ok
            /\ EndWithException(t, r.out.exc, last_error,
                   [cyc[t] EXCEPT !.attempts = Append(@, Attempt(t, "raised")),
                                  !.last_answer = AnswerKind(resp),
                                  !.request_failed = TRUE,
                                  !.login_state = "aborted",
                                  !.login_exc = r.out.exc])
    /\ UNCHANGED <<cfg, client_vars, now, cycles, ticks, last_ok_base, fn_vars>>

\* A login request is answered by a 200 with a token: the token is cached, the base
\* adopted, and _get goes on to send its GET.
LoginSucceeded(t) ==
    /\ task[t].pc = "login"
    /\ \E resp \in LoginResponses :
        LET r == LoginAnswer(t, resp)
            b == task[t].pairs[task[t].pair_i].base
        IN  /\ r.out.ok /\ r.out.val.ok
            /\ token' = r.write[1].token
            /\ token_expiry' = r.write[1].token_expiry
            /\ base_url' = AdoptBase(b, base_url)
            /\ last_ok_base' = Some(b)
            /\ task' = [task EXCEPT ![t] =
                          [@ EXCEPT !.pc = "get",
                                    !.request = GetRequest(base_url', token', task[t].endpoint, now)]]
            /\ cyc' = [cyc EXCEPT ![t] =
                         [@ EXCEPT !.attempts = Append(@, Attempt(t, "ok")),
                                   !.last_answer = AnswerKind(resp), !.login_state = "ok",
                                   !.requests = @ + 1,
                                   !.gets = Append(@, task[t].endpoint)]]
    /\ UNCHANGED <<cfg, last_error, coordinator_data, now, cycles, ticks, energy_latest,
                   energy_seen, fn_vars>>

\* An authenticated GET is answered by a non-200 status.
GetRejected(t) ==
    /\ task[t].pc = "get"
    /\ \E resp \in GetResponses(task[t].endpoint) :
        LET msg == GetFailedMsg(task[t].request.path, resp.status)
        IN  /\ resp.k = "http" /\ resp.status # 200
            /\ last_error' = Some(msg)
            /\ EndWithException(t, RuntimeError(msg), Some(msg),
                   [cyc[t] EXCEPT !.request_failed = TRUE])
    /\ UNCHANGED <<cfg, base_url, token, token_expiry, now, cycles, ticks, last_ok_base, fn_vars>>

\* An authenticated GET times out (or its 200 body is not JSON).
GetAborted(t) ==
    /\ task[t].pc = "get"
    /\ \E resp \in GetResponses(task[t].endpoint) :
        /\ resp.k = "timeout" \/ (resp.status = 200 /\ resp.body[1].kind = "invalid")
        /\ EndWithException(t, IF resp.k = "timeout" THEN TimeoutError ELSE JSONDecodeError,
               last_error, [cyc[t] EXCEPT !.request_failed = TRUE])
    /\ UNCHANGED <<cfg, client_vars, now, cycles, ticks, last_ok_base, fn_vars>>

\* The flow GET is answered by a 200: the power metrics are derived and
\* get_generation_use is called.
FlowReceived(t) ==
    /\ task[t].pc = "get" /\ task[t].endpoint = "flow"
    /\ \E resp \in GetResponses("flow") :
        LET fl == Unwrap(resp.body[1])
            fm == parse_metrics_from_flow(fl, FALSE)
        IN  /\ resp.k = "http" /\ resp.status = 200 /\ resp.body[1].kind # "invalid"
            /\ IF fm.ok
               THEN /\ task' = [task EXCEPT ![t] =
                                  CallGet([@ EXCEPT !.flow = fl, !.flow_metrics = Some(fm.val)],
                                          "genuse", base_url, token, token_expiry,
                                          cfg.auth_mode, now)]
                    /\ cyc' = [cyc EXCEPT ![t] =
                                 CallGetObs(@, "genuse", base_url, token, token_expiry,
                                            cfg.auth_mode, now)]
                    /\ last_error' = IF NeedsLogin(token, token_expiry, now)
                                     THEN None ELSE last_error
                    /\ UNCHANGED <<coordinator_data, energy_latest, energy_seen>>
               ELSE /\ EndWithException(t, fm.exc, last_error, cyc[t])
                    /\ UNCHANGED last_error
    /\ UNCHANGED <<cfg, base_url, token, token_expiry, now, cycles, ticks, last_ok_base, fn_vars>>

\* The metric set of a successful cycle: flow_metrics | {"energy_today": ...} | grid_energy
MergeMetrics(fm, energy_today, ge) ==
    [pv_power |-> fm.pv_power,
     load_power |-> fm.load_power,
     grid_import_power |-> fm.grid_import_power,
     grid_export_power |-> fm.grid_export_power,
     battery_power |-> fm.battery_power,
     battery_soc |-> fm.battery_soc,
     energy_today |-> energy_today,
     grid_import_energy_today |-> ge.grid_import_energy_today,
     grid_export_energy_today |-> ge.grid_export_energy_today,
     load_energy_today |-> ge.load_energy_today]

\* A variant of GridEnergy that integrates on the first run too, from totals of zero.
GridEnergyWithoutFirstRun(fl, data, secs, t) ==
    parse_daily_energy_from_flow(fl, IF data # None THEN data[1].metrics ELSE ZeroEnergy,
                                 FALSE, secs, t)

\* The daily totals of a cycle, from the flow and the coordinator's last PollResult.
GridEnergy(fl, data, secs, t) ==
    IF data # None
    THEN parse_daily_energy_from_flow(fl, data[1].metrics, FALSE, secs, t)
    ELSE Ok(ZeroEnergy)

\* The highest daily totals among those seen and a further report.
HighestEnergy(seen, e) ==
    IF e = None THEN seen
    ELSE IF seen = None THEN e
    ELSE Some([k \in DOMAIN ZeroEnergy |-> Max(seen[1][k], e[1][k])])

\* The generation/use GET is answered by a 200: the cycle returns its PollResult.
GenUseReceived(t) ==
    /\ task[t].pc = "get" /\ task[t].endpoint = "genuse"
    /\ \E resp \in GetResponses("genuse") :
        LET genuse == Unwrap(resp.body[1])
            energy_today == parse_energy_today_from_generation_use(genuse)
            ge == GridEnergy(task[t].flow, coordinator_data, cfg.update_seconds, now)
            res == [metrics |-> MergeMetrics(task[t].flow_metrics[1], energy_today, ge.val),
                    last_error |-> last_error]
        IN  /\ resp.k = "http" /\ resp.status = 200 /\ resp.body[1].kind # "invalid"
            /\ IF ge.ok
               THEN /\ task' = [task EXCEPT ![t] = IdleTask]
                    /\ cyc' = [cyc EXCEPT ![t] =
                                 [@ EXCEPT !.outcome = "returned", !.result = Some(res)]]
                    /\ coordinator_data' = Some(res)
                    /\ IF InMidnightWindow(now)
                       THEN UNCHANGED <<energy_latest, energy_seen>>
                       ELSE /\ energy_latest' = Some(ge.val)
                            /\ energy_seen' = HighestEnergy(energy_seen, energy_latest)
               ELSE EndWithException(t, ge.exc, last_error, cyc[t])
    /\ UNCHANGED <<cfg, client_vars, now, cycles, ticks, last_ok_base, fn_vars>>

CancelledError == Exc("CancelledError", <<>>)

\* The task of a cycle is cancelled while it awaits the answer to a login request or
\* to a GET: the CancelledError leaves the timeout block, _login or _get, and
\* async_update_data, whose except clause does not catch it.
Cancel(t) ==
    /\ task[t].pc \in {"login", "get"}
    /\ EndWithException(t, CancelledError, last_error,
           IF task[t].pc = "login"
           THEN [cyc[t] EXCEPT !.attempts = Append(@, Attempt(t, "raised")),
                               !.last_answer = "cancelled",
                               !.login_state = "aborted",
                               !.login_exc = CancelledError]
           ELSE cyc[t])
    /\ UNCHANGED <<cfg, client_vars, now, cycles, ticks, last_ok_base, fn_vars>>

\* A minute passes.
Tick ==
    /\ ticks < MaxTicks
    /\ ticks' = ticks + 1
    /\ now' = now + 60
    /\ UNCHANGED <<cfg, client_vars, coordinator_data, task, cyc, cycles, last_ok_base,
                   energy_latest, energy_seen, fn_vars>>

---------------------------------------------------------------------------
(* Specifications *)

Config(b, mode, secs, invert) ==
    [base_url |-> b, auth_mode |-> mode, update_seconds |-> secs, invert_grid |-> invert]

\* The configurations of the runs: every auth mode, a canonical and a custom host.
Configs ==
    { Config(API_HOST, "auto", 60, TRUE),
      Config(CUSTOM_HOST, "strict", 60, TRUE),
      Config(API_HOST, "legacy", 60, TRUE) }

NoCall == [flow |-> EmptyDoc, invert |-> FALSE]

\* The state after async_setup_entry has built the client and the coordinator, two
\* minutes after local midnight.
Init ==
    /\ cfg \in Configs
    /\ base_url = cfg.base_url
    /\ token = None
    /\ token_expiry = None
    /\ last_error = None
    /\ coordinator_data = None
    /\ now = 120
    /\ task = [t \in Tasks |-> IdleTask]
    /\ cyc = [t \in Tasks |-> NoCycle]
    /\ cycles = 0
    /\ ticks = 0
    /\ last_ok_base = None
    /\ energy_latest = None
    /\ energy_seen = None
    /\ fn_name = "none"
    /\ fn_args = NoCall
    /\ fn_out = None

Step(t) ==
    \/ StartCycle(t)
    \/ LoginRejected(t)
    \/ LoginAborted(t)
    \/ LoginSucceeded(t)
    \/ GetRejected(t)
    \/ GetAborted(t)
    \/ FlowReceived(t)
    \/ GenUseReceived(t)

Next == Tick \/ \E t \in SchedulerTasks : Step(t)

Spec == Init /\ [][Next]_vars

\* The cycles of the Scheduler, each of which may also be cancelled at an await.
NextCancel ==
    \/ Tick
    \/ \E t \in SchedulerTasks : Step(t)
    \/ \E t \in SchedulerTasks : Cancel(t)

SpecCancel == Init /\ [][NextCancel]_vars

\* The cycles the core admits when its caller does not run them one at a time: the
\* tasks run cycles of their own, interleaved at every await, and each may be
\* cancelled there.  The clock stands still during these runs.
MaxConcurrentCycles == 2

NextConcurrent ==
    \/ \E t \in Tasks : Step(t) /\ cycles' <= MaxConcurrentCycles
    \/ \E t \in Tasks : Cancel(t)

SpecConcurrent == Init /\ [][NextConcurrent]_vars

---------------------------------------------------------------------------
(* The pure functions, each applied once to an argument of a bounded set *)

ParseKeys == {"gridOrMeterPower", "gridNet", "loadPower"}
ParseValues == {JNull, JStr, JNum(-200), JNum(0), JNum(300)}
ParseMaps == UNION {[ks -> ParseValues] : ks \in SUBSET ParseKeys}
ParseNested == {None, Some(EmptyDict), Some("gridPower" :> JNum(150))}
ParseFlows == {Doc(top, nested) : top \in ParseMaps, nested \in ParseNested}

InitParse ==
    /\ cfg = Config(API_HOST, "auto", 60, FALSE)
    /\ base_url = cfg.base_url
    /\ token = None
    /\ token_expiry = None
    /\ last_error = None
    /\ coordinator_data = None
    /\ now = 120
    /\ task = [t \in Tasks |-> IdleTask]
    /\ cyc = [t \in Tasks |-> NoCycle]
    /\ cycles = 0
    /\ ticks = 0
    /\ last_ok_base = None
    /\ energy_latest = None
    /\ energy_seen = None
    /\ fn_name = "none"
    /\ fn_args \in [flow : ParseFlows, invert : BOOLEAN]
    /\ fn_out = None

Call_parse_metrics_from_flow ==
    /\ fn_name = "none"
    /\ fn_name' = "parse_metrics_from_flow"
    /\ fn_out' = Some(parse_metrics_from_flow(fn_args.flow, fn_args.invert))
    /\ UNCHANGED <<cfg, client_vars, coordinator_data, now, task, cyc, run_vars, fn_args>>

NextParse == Call_parse_metrics_from_flow

SpecParse == InitParse /\ [][NextParse]_vars

\* The state of a client and a coordinator that run no cycle, in a specification
\* that applies one function to its arguments.
NoRun ==
    /\ base_url = cfg.base_url
    /\ token = None
    /\ token_expiry = None
    /\ last_error = None
    /\ coordinator_data = None
    /\ task = [t \in Tasks |-> IdleTask]
    /\ cyc = [t \in Tasks |-> NoCycle]
    /\ cycles = 0
    /\ ticks = 0
    /\ last_ok_base = None
    /\ energy_latest = None
    /\ energy_seen = None
    /\ fn_name = "none"
    /\ fn_out = None

\* parse_daily_energy_from_flow, at several times of day, for the update intervals
\* of DailySeconds and prior metric sets that are empty or hold the three totals
\* (1.2, 0.3 and 2.5 kWh in the last).
DailySeconds == {30, 60}
DailyTimes == {0, 120, 179, 180, 3660}
DailyPriors ==
    { EmptyDict,
      ZeroEnergy,
      [grid_import_energy_today |-> 72000, grid_export_energy_today |-> 18000,
       load_energy_today |-> 150000] }

InitDaily ==
    /\ cfg \in {Config(API_HOST, "auto", secs, FALSE) : secs \in DailySeconds}
    /\ now \in DailyTimes
    /\ fn_args \in [flow : ParseFlows, metrics : DailyPriors, invert : BOOLEAN]
    /\ NoRun

Call_parse_daily_energy_from_flow ==
    /\ fn_name = "none"
    /\ fn_name' = "parse_daily_energy_from_flow"
    /\ fn_out' = Some(parse_daily_energy_from_flow(fn_args.flow, fn_args.metrics, fn_args.invert,
                                                   cfg.update_seconds, now))
    /\ UNCHANGED <<cfg, client_vars, coordinator_data, now, task, cyc, run_vars, fn_args>>

NextDaily == Call_parse_daily_energy_from_flow

SpecDaily == InitDaily /\ [][NextDaily]_vars

\* _pick, for several lists of candidate keys and defaults, on objects whose nested
\* flow object holds none, one or two of the candidates.
PickKeys == {GRID_KEYS, LOAD_KEYS, <<"gridNet", "gridOrMeterPower">>}
PickDefaults == {JNull, JNum(7)}
PickNested ==
    { None,
      Some(EmptyDict),
      Some(("gridNet" :> JNum(150)) @@ ("gridOrMeterPower" :> JNull)),
      Some(("gridPower" :> JNum(40)) @@ ("gridNet" :> JNum(150)) @@ ("load" :> JStr)) }
PickFlows == {Doc(top, nested) : top \in ParseMaps, nested \in PickNested}

InitPick ==
    /\ cfg = Config(API_HOST, "auto", 60, FALSE)
    /\ now = 120
    /\ fn_args \in [flow : PickFlows, keys : PickKeys, default : PickDefaults]
    /\ NoRun

Call__pick ==
    /\ fn_name = "none"
    /\ fn_name' = "_pick"
    /\ fn_out' = Some(_pick(fn_args.flow, fn_args.keys, fn_args.default))
    /\ UNCHANGED <<cfg, client_vars, coordinator_data, now, task, cyc, run_vars, fn_args>>

NextPick == Call__pick

SpecPick == InitPick /\ [][NextPick]_vars

\* The return of get_flow and get_generation_use, for the bodies of a 200 answer:
\* an envelope around an object, an object without a "data" field, an envelope
\* around null, and null.
UnwrapBodies ==
    {GetBody(kind, d) : kind \in {"envelope", "bare"}, d \in ParseFlows}
        \cup {GetBody("envelope_null", EmptyDoc), GetBody("null", EmptyDoc)}

InitUnwrap ==
    /\ cfg = Config(API_HOST, "auto", 60, FALSE)
    /\ now = 120
    /\ fn_args \in [body : UnwrapBodies]
    /\ NoRun

Call_get_flow ==
    /\ fn_name = "none"
    /\ fn_name' = "get_flow"
    /\ fn_out' = Some(Unwrap(fn_args.body))
    /\ UNCHANGED <<cfg, client_vars, coordinator_data, now, task, cyc, run_vars, fn_args>>

Call_get_generation_use ==
    /\ fn_name = "none"
    /\ fn_name' = "get_generation_use"
    /\ fn_out' = Some(Unwrap(fn_args.body))
    /\ UNCHANGED <<cfg, client_vars, coordinator_data, now, task, cyc, run_vars, fn_args>>

NextUnwrap == Call_get_flow \/ Call_get_generation_use

SpecUnwrap == InitUnwrap /\ [][NextUnwrap]_vars

\* _try_login_once, for every answer to one login request: a timeout, a 403, and a
\* 200 whose body holds a token in any of the three places and an expires_in in
\* either, both or none of the two.
ReportedExpiries == {None, Some(100), Some(660), Some(7200)}
TryLoginBodies ==
    {LoginBody("object", dat, acc, tok, dexp, exp) :
        dat \in BOOLEAN, acc \in BOOLEAN, tok \in BOOLEAN,
        dexp \in ReportedExpiries, exp \in ReportedExpiries}
        \cup {LoginBody("invalid", FALSE, FALSE, FALSE, None, None)}
TryLoginResponses ==
    {Timeout, Http(403, LoginBody("invalid", FALSE, FALSE, FALSE, None, None))}
        \cup {Http(200, b) : b \in TryLoginBodies}
TryLoginTimes == {120, 4000}

InitTryLogin ==
    /\ cfg = Config(API_HOST, "auto", 60, FALSE)
    /\ now \in TryLoginTimes
    /\ fn_args \in [base : {API_HOST, MYSOLARK, CUSTOM_HOST}, mode : {"strict", "legacy"},
                     resp : TryLoginResponses]
    /\ NoRun

Call__try_login_once ==
    /\ fn_name = "none"
    /\ fn_name' = "_try_login_once"
    /\ fn_out' = Some(_try_login_once(fn_args.base, fn_args.mode, fn_args.resp, now))
    /\ UNCHANGED <<cfg, client_vars, coordinator_data, now, task, cyc, run_vars, fn_args>>

NextTryLogin == Call__try_login_once

SpecTryLogin == InitTryLogin /\ [][NextTryLogin]_vars

---------------------------------------------------------------------------
(* Claims *)

Ended(t) == cyc[t].outcome \in {"returned", "propagated"}
ValidToken(t) == token # None /\ token_expiry # None /\ t < token_expiry[1]

\* C1: a cycle in which a failure of any kind reached the outermost boundary does
\* not propagate it: it returns a PollResult with empty metrics and a last_error
\* that is not None.
C1_FailureReturnsEmptyResult ==
    \A t \in Tasks :
        (Ended(t) /\ cyc[t].exc # NoExc) =>
            /\ cyc[t].outcome = "returned"
            /\ cyc[t].result # None
            /\ DOMAIN cyc[t].result[1].metrics = {}
            /\ cyc[t].result[1].last_error # None

\* A cycle whose first login request timed out has returned a PollResult whose
\* last_error is the empty string.
C1_Witness ==
    /\ Ended(1) /\ cyc[1].exc = TimeoutError
    /\ cyc[1].last_answer = "timeout" /\ Len(cyc[1].attempts) = 1
    /\ cyc[1].result = Some([metrics |-> EmptyDict, last_error |-> Some(<<>>)])
    /\ coordinator_data = cyc[1].result

\* C2: of the PollResults computed outside the midnight window, each reports daily
\* totals at least as high as every earlier one of the day.
C2_EnergyNeverDecreases ==
    (energy_latest # None /\ energy_seen # None) =>
        \A k \in DOMAIN ZeroEnergy : energy_latest[1][k] >= energy_seen[1][k]

\* The signed grid value parse_metrics_from_flow reads from a flow, None if absent.
GridSigned(fl) == _to_float(_pick(fl, GRID_KEYS, JNull))

\* C3: with a signed grid value g, parse_metrics_from_flow returns import = max(g,0)
\* and export = max(-g,0), the roles swapped in inverted mode; both are non-negative
\* and one of them is 0.
C3_GridSplit ==
    (fn_name = "parse_metrics_from_flow" /\ GridSigned(fn_args.flow) # None) =>
        LET g == GridSigned(fn_args.flow)[1]
            out == fn_out[1]
        IN  /\ out.ok
            /\ out.val.grid_import_power # None /\ out.val.grid_export_power # None
            /\ LET imp == out.val.grid_import_power[1]
                   exp == out.val.grid_export_power[1]
               IN  /\ ~fn_args.invert => (imp = Max(g, 0) /\ exp = Max(-g, 0))
                   /\ fn_args.invert => (imp = Max(-g, 0) /\ exp = Max(g, 0))
                   /\ imp >= 0 /\ exp >= 0
                   /\ imp * exp = 0

\* An inverted split of a negative grid value, found in the nested flow object.
C3_Witness ==
    /\ fn_name = "parse_metrics_from_flow"
    /\ fn_args.invert
    /\ GridSigned(fn_args.flow) = Some(-200)
    /\ fn_out[1].ok
    /\ fn_out[1].val.grid_import_power = Some(200)
    /\ fn_out[1].val.grid_export_power = Some(0)

\* The order of the claim: each base in turn, and for each base strict then legacy
\* in auto mode, the one fixed strategy otherwise.
ExpectedPairs(bs, mode) ==
    IF mode = "auto"
    THEN <<[base |-> bs[1], mode |-> "strict"], [base |-> bs[1], mode |-> "legacy"],
           [base |-> bs[2], mode |-> "strict"], [base |-> bs[2], mode |-> "legacy"]>>
    ELSE <<[base |-> bs[1], mode |-> mode], [base |-> bs[2], mode |-> mode]>>

C5_StickyBase ==
    /\ last_ok_base = None => base_url = cfg.base_url
    /\ last_ok_base # None => base_url = last_ok_base[1]
    /\ \A t \in Tasks :
         task[t].request.kind = "get" =>
            /\ last_ok_base # None
            /\ task[t].request.base = last_ok_base[1]

\* A later cycle, which did not log in, sends its GET to the alternate host that an
\* earlier login fell back to.
C5_Witness ==
    /\ cycles >= 2
    /\ cfg.base_url = API_HOST
    /\ cyc[1].login_state = "none"
    /\ task[1].request.kind = "get"
    /\ task[1].request.base = MYSOLARK
    /\ base_url = MYSOLARK

\* C6: a login request that times out counts as a failure of its pair: with pairs
\* left to try, the login goes on.
C6_TimeoutDoesNotAbortLogin ==
    \A t \in Tasks :
        (cyc[t].last_answer = "timeout" /\ Len(cyc[t].attempts) < Len(cyc[t].login_pairs)) =>
            cyc[t].login_state = "running"

\* C7: a login in which every pair was attempted and failed raises an error that
\* describes the failure of the last pair, and last_error holds that description.
C7_ExhaustedLoginRaisesLastReason ==
    \A t \in Tasks :
        LET c == cyc[t]
            n == Len(c.attempts)
        IN  (c.login_state \in {"raised", "aborted"} /\ n = Len(c.login_pairs)) =>
            /\ Len(c.login_exc.msg) >= 5
            /\ c.login_exc.msg[2] = c.attempts[n].base
            /\ c.login_exc.msg[4] = c.attempts[n].mode
            /\ last_error = Some(c.login_exc.msg)

\* C8: a login request is sent only when no token is cached or the cached expiry has
\* passed, and a GET only on a token that was cached and unexpired when it was sent.
C8_LoginOnlyWhenNeeded ==
    \A t \in Tasks :
        /\ task[t].request.kind = "login" => ~ValidToken(task[t].request.sent_at)
        /\ task[t].request.kind = "get" =>
              /\ ValidToken(task[t].request.sent_at)
              /\ task[t].request.token = token

\* A cached token has expired and the cycle has sent a login request.
C8_Witness ==
    /\ task[1].request.kind = "login"
    /\ token # None
    /\ token_expiry # None
    /\ now >= token_expiry[1]

\* C9: a cycle in which no request failed and no exception was raised returns a
\* PollResult whose last_error is None.
C9_ErrorOnlyIfFailureInCycle ==
    \A t \in Tasks :
        (cyc[t].outcome = "returned" /\ ~cyc[t].request_failed /\ cyc[t].exc = NoExc) =>
            cyc[t].result[1].last_error = None

\* No candidate key of the signed grid value holds a number, at top level or in the
\* nested flow object.
NoNumericGrid(fl) ==
    \A i \in 1..Len(GRID_KEYS) :
        /\ ~(GRID_KEYS[i] \in DOMAIN fl.top /\ fl.top[GRID_KEYS[i]][1] = "num")
        /\ fl.nested # None =>
             ~(GRID_KEYS[i] \in DOMAIN fl.nested[1] /\ fl.nested[1][GRID_KEYS[i]][1] = "num")

\* C10: parse_metrics_from_flow returns a metric mapping, without raising, for a flow
\* that holds no signed grid value.
C10_NoRaiseWithoutGrid ==
    (fn_name = "parse_metrics_from_flow" /\ NoNumericGrid(fn_args.flow)) => fn_out[1].ok

\* The load power parse_daily_energy_from_flow reads from a flow, None if absent.
LoadPower(fl) == _to_float(_pick(fl, LOAD_KEYS, JNull))

\* The import and export power of a signed grid value, as the claims state them.
ImportOf(g, invert) == IF invert THEN Max(-g, 0) ELSE Max(g, 0)
ExportOf(g, invert) == IF invert THEN Max(g, 0) ELSE Max(-g, 0)

DailyCall == fn_name = "parse_daily_energy_from_flow"

\* C11: with an empty mapping as the prior metric set, parse_daily_energy_from_flow
\* returns the three totals 0 without raising, for every flow (also one without a
\* load or a grid value) and at every time of day.
C11_EmptyPriorGivesZero ==
    (DailyCall /\ DOMAIN fn_args.metrics = {}) =>
        /\ fn_out[1].ok
        /\ fn_out[1].val = [grid_import_energy_today |-> 0, grid_export_energy_today |-> 0,
                            load_energy_today |-> 0]

\* Outside the midnight window, an empty prior and a flow without a load and without
\* a grid value give the all-zero totals.
C11_Witness ==
    /\ DailyCall
    /\ fn_args.metrics = EmptyDict
    /\ fn_args.flow = EmptyDoc
    /\ now = 3660
    /\ fn_out = Some(Ok(ZeroEnergy))

\* C12: outside the midnight window, with prior totals {gi, ge, ld}, a load power L
\* and a signed grid value split into Gi and Ge, each total returned is its own prior
\* total plus its own power integrated over the interval I (in units of 1/60000 kWh:
\* prior + power * I).
C12_IntegratesOutsideWindow ==
    (/\ DailyCall
     /\ ~(Hour(now) = 0 /\ Minute(now) \in {0, 1, 2})
     /\ DOMAIN fn_args.metrics # {}
     /\ LoadPower(fn_args.flow) # None
     /\ GridSigned(fn_args.flow) # None) =>
        LET prior == fn_args.metrics
            I == cfg.update_seconds
            L == LoadPower(fn_args.flow)[1]
            g == GridSigned(fn_args.flow)[1]
        IN  /\ fn_out[1].ok
            /\ fn_out[1].val.load_energy_today = prior.load_energy_today + L * I
            /\ fn_out[1].val.grid_import_energy_today =
                    prior.grid_import_energy_today + ImportOf(g, fn_args.invert) * I
            /\ fn_out[1].val.grid_export_energy_today =
                    prior.grid_export_energy_today + ExportOf(g, fn_args.invert) * I

\* At 01:01, 30 s of 300 W load and 200 W export are added onto 2.5 kWh and 0.3 kWh,
\* and the import total stays at 1.2 kWh.
C12_Witness ==
    /\ DailyCall
    /\ now = 3660
    /\ cfg.update_seconds = 30
    /\ ~fn_args.invert
    /\ fn_args.metrics = [grid_import_energy_today |-> 72000, grid_export_energy_today |-> 18000,
                          load_energy_today |-> 150000]
    /\ LoadPower(fn_args.flow) = Some(300)
    /\ GridSigned(fn_args.flow) = Some(-200)
    /\ fn_out[1].ok
    /\ fn_out[1].val = [grid_import_energy_today |-> 72000, grid_export_energy_today |-> 24000,
                        load_energy_today |-> 159000]

\* C13: at hour 0 and minute 0, 1 or 2, each total returned is the contribution of
\* the current interval alone, power * I, whatever the (non-empty) prior totals are.
C13_WindowDiscardsPrior ==
    (/\ DailyCall
     /\ Hour(now) = 0 /\ Minute(now) \in {0, 1, 2}
     /\ DOMAIN fn_args.metrics # {}
     /\ LoadPower(fn_args.flow) # None
     /\ GridSigned(fn_args.flow) # None) =>
        LET I == cfg.update_seconds
            L == LoadPower(fn_args.flow)[1]
            g == GridSigned(fn_args.flow)[1]
        IN  /\ fn_out[1].ok
            /\ fn_out[1].val.load_energy_today = L * I
            /\ fn_out[1].val.grid_import_energy_today = ImportOf(g, fn_args.invert) * I
            /\ fn_out[1].val.grid_export_energy_today = ExportOf(g, fn_args.invert) * I

\* At 00:02:59 a prior of 1.2, 0.3 and 2.5 kWh is discarded: the totals are those of
\* one minute of 300 W load and 300 W import.
C13_Witness ==
    /\ DailyCall
    /\ now = 179
    /\ cfg.update_seconds = 60
    /\ ~fn_args.invert
    /\ fn_args.metrics = [grid_import_energy_today |-> 72000, grid_export_energy_today |-> 18000,
                          load_energy_today |-> 150000]
    /\ LoadPower(fn_args.flow) = Some(300)
    /\ GridSigned(fn_args.flow) = Some(300)
    /\ fn_out[1].ok
    /\ fn_out[1].val = [grid_import_energy_today |-> 18000, grid_export_energy_today |-> 0,
                        load_energy_today |-> 18000]

\* C14: the first poll cycle, run when the coordinator holds no PollResult, reports
\* the three daily totals as 0 when it succeeds, whatever the flow holds and whatever
\* the time of day.
C14_FirstCycleReportsZero ==
    \A t \in Tasks :
        (cycles = 1 /\ cyc[t].outcome = "returned" /\ cyc[t].exc = NoExc) =>
            /\ cyc[t].result[1].metrics.grid_import_energy_today = 0
            /\ cyc[t].result[1].metrics.grid_export_energy_today = 0
            /\ cyc[t].result[1].metrics.load_energy_today = 0

\* The first cycle succeeded at 00:04, outside the midnight window, on a flow with
\* 600 W of load and 300 W of export, and reports totals of 0.
C14_Witness ==
    /\ cycles = 1
    /\ now = 240
    /\ cyc[1].outcome = "returned" /\ cyc[1].exc = NoExc
    /\ coordinator_data = cyc[1].result
    /\ cyc[1].result[1].metrics.load_power = Some(600)
    /\ cyc[1].result[1].metrics.grid_import_power = Some(0)
    /\ cyc[1].result[1].metrics.grid_export_power = Some(300)
    /\ cyc[1].result[1].metrics.load_energy_today = 0

\* v is the value of the first key of keys, in their order, that the object m holds
\* with a non-null value.
IsFirstMatch(m, keys, v) ==
    \E i \in 1..Len(keys) :
        /\ keys[i] \in DOMAIN m /\ m[keys[i]] # JNull /\ v = m[keys[i]]
        /\ \A j \in 1..(i - 1) : ~(keys[j] \in DOMAIN m /\ m[keys[j]] # JNull)

HasMatch(m, keys) == \E i \in 1..Len(keys) : keys[i] \in DOMAIN m /\ m[keys[i]] # JNull

\* C15: _pick returns the value of the first candidate key present at top level with
\* a non-null value; only if there is none and the field "flow" is an object, the
\* first such match inside that object; otherwise the default.
C15_PickOrder ==
    fn_name = "_pick" =>
        LET d == fn_args.flow
            keys == fn_args.keys
            v == fn_out[1]
        IN  IF HasMatch(d.top, keys)
            THEN IsFirstMatch(d.top, keys, v)
            ELSE IF d.nested # None /\ HasMatch(d.nested[1], keys)
                 THEN IsFirstMatch(d.nested[1], keys, v)
                 ELSE v = fn_args.default

\* Nothing matches at top level and the nested object holds gridPower and gridNet:
\* the one earlier in the candidate list is returned, not the default.
C15_Witness ==
    /\ fn_name = "_pick"
    /\ fn_args.keys = GRID_KEYS
    /\ fn_args.default = JNum(7)
    /\ ~HasMatch(fn_args.flow.top, GRID_KEYS)
    /\ fn_args.flow.nested # None
    /\ "gridNet" \in DOMAIN fn_args.flow.nested[1]
    /\ fn_out = Some(JNum(40))

\* C16: for the body of a 200 answer, get_flow and get_generation_use return the
\* content of the "data" envelope when the body has one, the body itself when it has
\* none, and an empty mapping when the envelope holds null or the body is null.
C16_UnwrapOrRawBody ==
    fn_name \in {"get_flow", "get_generation_use"} =>
        LET body == fn_args.body
        IN  /\ body.kind = "envelope" => fn_out[1] = body.doc
            /\ body.kind = "bare" => fn_out[1] = body.doc
            /\ body.kind \in {"envelope_null", "null"} => fn_out[1] = EmptyDoc

\* The values of expires_in a login body reports (at data.expires_in and
\* expires_in), 3600 when it reports none.
ReportedExpiresIn(body) ==
    LET rep == {e[1] : e \in {body.data_expires_in, body.expires_in} \ {None}}
    IN  IF rep = {} THEN {3600} ELSE rep

\* C17: a successful login caches the token with the expiry now + max(60, E - 600),
\* E being the expires_in the provider reported (3600 when absent): the cached
\* lifetime is at least 60 s and, for E >= 660, ends 600 s before the reported expiry.
C17_ExpiryMargin ==
    (fn_name = "_try_login_once" /\ fn_out[1].out.ok /\ fn_out[1].out.val.ok) =>
        /\ fn_out[1].write # None
        /\ fn_out[1].write[1].token # None
        /\ fn_out[1].write[1].token_expiry # None
        /\ \E E \in ReportedExpiresIn(fn_args.resp.body[1]) :
              LET exp == fn_out[1].write[1].token_expiry[1]
              IN  /\ exp = now + Max(60, E - 600)
                  /\ exp - now >= 60
                  /\ E >= 660 => exp = now + E - 600

\* A token issued with expires_in = 100 at second 4000 is cached until second 4060.
C17_Witness ==
    /\ fn_name = "_try_login_once"
    /\ now = 4000
    /\ fn_args.resp = Http(200, LoginBody("object", TRUE, FALSE, FALSE, Some(100), None))
    /\ fn_out[1].out = Ok([ok |-> TRUE, err |-> <<>>])
    /\ fn_out[1].write = Some([token |-> Some(Issued(fn_args.base, "data.access_token")),
                               token_expiry |-> Some(4060)])

\* C18: every login of a client, also one that follows a sticky fallback, tries two
\* bases: first the configured base URL, then the canonical host that is not the
\* configured one.
C18_BasesFromConfiguredBase ==
    \A t \in Tasks :
        cyc[t].login_state # "none" =>
            \E alt \in {API_HOST, MYSOLARK} \ {cfg.base_url} :
                cyc[t].login_pairs = ExpectedPairs(<<cfg.base_url, alt>>, cfg.auth_mode)

\* The most requests one login may send: one per (base, strategy) pair.
MostLoginRequests == IF cfg.auth_mode = "auto" THEN 4 ELSE 2

\* The cycle of task t ended on the non-200 answer to a GET.
EndedOnGetStatus(t) ==
    /\ cyc[t].exc.type = "RuntimeError"
    /\ Len(cyc[t].exc.msg) > 0
    /\ cyc[t].exc.msg[1] = "GET "

\* C19: a poll cycle retries nothing.  It sends at most one GET to the flow endpoint
\* and then at most one to generation/use; after a non-200 answer to a GET it has
\* ended and sends no further GET and no login request; a login sends at most one
\* request to each (base, strategy) pair, so at most 4 in auto mode and 2 in a fixed
\* mode; and the cycle sends at most 2 logins and 2 GETs worth of requests.
C19_NoRetry ==
    \A t \in Tasks :
        LET c == cyc[t]
            n == Len(c.attempts)
        IN  /\ c.gets \in {<<>>, <<"flow">>, <<"flow", "genuse">>}
            /\ n <= MostLoginRequests
            /\ \A i \in 1..n : \A j \in 1..n :
                  (i # j) => <<c.attempts[i].base, c.attempts[i].mode>>
                                # <<c.attempts[j].base, c.attempts[j].mode>>
            /\ task[t].request.kind = "login" =>
                  /\ n < MostLoginRequests
                  /\ \A i \in 1..n : <<c.attempts[i].base, c.attempts[i].mode>>
                                        # <<task[t].request.base, task[t].request.mode>>
            /\ c.requests <= 2 * MostLoginRequests + 2
            /\ EndedOnGetStatus(t) =>
                  /\ Ended(t)
                  /\ task[t].request = NoRequest
                  /\ c.gets # <<>>
                  /\ c.exc.msg[2] = Path(c.gets[Len(c.gets)])

\* In auto mode a cycle logged in on the fourth pair, got the flow, found the token
\* expired, was rejected by all four pairs of a second login, and ended after nine
\* requests.
C19_Witness ==
    /\ cfg.auth_mode = "auto"
    /\ Ended(1)
    /\ cyc[1].gets = <<"flow">>
    /\ cyc[1].login_state = "raised"
    /\ Len(cyc[1].attempts) = 4
    /\ cyc[1].requests = 9

\* In this step the cycle of task t ends on an exception or a cancellation.
FailsOrIsCancelled(t) ==
    /\ cyc[t].outcome = "running"
    /\ cyc'[t].outcome \in {"returned", "propagated"}
    /\ cyc'[t].exc # NoExc

\* C20: the token and its expiry are cached together or not at all.  They change
\* only in the step in which a login request is answered by a 200 with a token,
\* which sets both (and the active base); a step in which a cycle fails or is
\* cancelled leaves them as they were.  The coordinator's PollResult changes only by
\* being replaced with the result a cycle returns, and a cancelled cycle leaves it
\* as it was.
C20_CredentialsWrittenTogether ==
    [][ /\ (token' = None) <=> (token_expiry' = None)
        /\ (<<token, token_expiry>>' # <<token, token_expiry>>) =>
              \E t \in Tasks :
                  /\ task[t].pc = "login"
                  /\ cyc'[t].login_state = "ok"
                  /\ token' # None /\ token_expiry' # None
                  /\ token'[1].iss = task[t].request.base
                  /\ base_url' = task[t].request.base
                  /\ token_expiry'[1] >= now + 60
        /\ \A t \in Tasks :
              FailsOrIsCancelled(t) =>
                  /\ UNCHANGED <<token, token_expiry, base_url>>
                  /\ cyc'[t].outcome = "propagated" => UNCHANGED coordinator_data
        /\ (coordinator_data' # coordinator_data) =>
              \E t \in Tasks :
                  /\ cyc[t].outcome = "running"
                  /\ cyc'[t].outcome = "returned"
                  /\ coordinator_data' = cyc'[t].result
      ]_vars

\* The second cycle logged in on an expired token and was cancelled while its GET
\* was in flight: the cache holds the token and expiry of that login, and the
\* coordinator the totals of the first cycle.
C20_Witness ==
    /\ cycles = 2
    /\ cyc[1].outcome = "propagated"
    /\ cyc[1].exc = CancelledError
    /\ cyc[1].login_state = "ok"
    /\ cyc[1].gets = <<"flow">>
    /\ token # None /\ token_expiry # None
    /\ token_expiry[1] >= now + 60
    /\ coordinator_data # None
    /\ DOMAIN coordinator_data[1].metrics # {}

\* C21: with invert mode configured, a successful poll cycle splits the signed grid
\* value g of its flow the inverted way, in the power metrics (import = max(-g, 0),
\* export = max(g, 0)) and in the daily totals it accumulates from a prior PollResult
\* that holds totals.
C21_InvertModeIsUsed ==
    [][ \A t \in Tasks :
          (/\ cfg.invert_grid
           /\ task[t].pc = "get" /\ task[t].endpoint = "genuse"
           /\ cyc'[t].outcome = "returned" /\ cyc'[t].exc = NoExc) =>
              LET g == GridSigned(task[t].flow)[1]
                  I == cfg.update_seconds
                  m == cyc'[t].result[1].metrics
              IN  /\ m.grid_import_power = Some(ImportOf(g, TRUE))
                  /\ m.grid_export_power = Some(ExportOf(g, TRUE))
                  /\ (coordinator_data # None /\ DOMAIN coordinator_data[1].metrics # {}) =>
                        LET prior == coordinator_data[1].metrics
                            reset == Hour(now) = 0 /\ Minute(now) \in {0, 1, 2}
                        IN  /\ m.grid_import_energy_today =
                                  (IF reset THEN 0 ELSE prior.grid_import_energy_today)
                                      + ImportOf(g, TRUE) * I
                            /\ m.grid_export_energy_today =
                                  (IF reset THEN 0 ELSE prior.grid_export_energy_today)
                                      + ExportOf(g, TRUE) * I
      ]_vars

\* C22: under every interleaving of concurrent poll cycles, a cached token was
\* issued by the active base, and every authenticated GET in flight was sent with a
\* token (not None) to the base that issued that token.
C22_TokenMatchesBase ==
    /\ token # None => base_url = token[1].iss
    /\ \A t \in Tasks :
          task[t].request.kind = "get" =>
              /\ task[t].request.token # None
              /\ task[t].request.token[1].iss = task[t].request.base

\* Two cycles logged in concurrently: the GET of the first is in flight to
\* api.solarkcloud.com with the token that host issued, while the second, rejected
\* there, was issued a token by www.mysolark.com, now the active base, and has its
\* own GET in flight to it.
C22_Witness ==
    /\ task[1].request.kind = "get"
    /\ task[1].request.base = API_HOST
    /\ task[1].request.token # None
    /\ task[1].request.token[1].iss = API_HOST
    /\ task[2].request.kind = "get"
    /\ task[2].request.base = MYSOLARK
    /\ task[2].request.token = token
    /\ token # None
    /\ token[1].iss = MYSOLARK
    /\ base_url = MYSOLARK

====
